---- MODULE Spec2Model ----
(***************************************************************************)
(* Model of src/streamlit_app.py: the World Bank indicator fetch with its  *)
(* bounded retry loop (fetch_worldbank_indicator), the sequential loading  *)
(* of the four indicators (load_public_datasets) and the fallback to       *)
(* sample data in the first tab of the dashboard.                          *)
(*                                                                         *)
(* Python and JSON values are tagged tuples, so that values of different   *)
(* Python types can be compared: <<"None">>, <<"int", 2023>>,              *)
(* <<"str", "KOR">>, <<"date", 2023, 1, 1>>, <<"NaT">>.                    *)
(***************************************************************************)
EXTENDS Integers, Sequences, FiniteSets, TLC

(* ------------------------------ bounds -------------------------------- *)
\* largest value of the retries argument tried by a direct call
MaxRetries == 3
\* largest value of the backoff argument tried by a direct call
MaxBackoff == 2
\* longest list of raw records in a provider envelope (direct call)
MaxRecs == 2
\* longest list of raw records in a provider envelope (dashboard run)
MaxDashRecs == 1
\* number of script runs of the dashboard (Streamlit re-runs the script)
MaxRuns == 2

(* --------------------------- Python values ---------------------------- *)
PyNone == <<"None">>
PyInt(n) == <<"int", n>>
PyStr(s) == <<"str", s>>
PyDate(y, m, d) == <<"date", y, m, d>>
NaT == <<"NaT">>
\* "no value yet": the call has not returned
NoValue == <<"novalue">>
\* "no exception"
NoExc == "none"

(* ---------------------------- JSON values ----------------------------- *)
\* a key that is missing from a JSON object
JAbsent == <<"absent">>
JNull == <<"null">>
JStr(s) == <<"str", s>>
JNum(n) == <<"num", n>>
\* a JSON object with one member (country.value, indicator.id)
JObj(member) == <<"obj", member>>

\* dict.get(key): a missing key and a JSON null both give None
Get(j) == IF j = JAbsent \/ j = JNull THEN PyNone
          ELSE IF j[1] = "num" THEN PyInt(j[2]) ELSE PyStr(j[2])

(* ------------------------- int() and str() ---------------------------- *)
Digits == <<"0", "1", "2", "3", "4", "5", "6", "7", "8", "9">>
IsDigit(c) == \E i \in 1..10 : Digits[i] = c
DigitValue(c) == (CHOOSE i \in 1..10 : Digits[i] = c) - 1

\* a string is a tuple of characters
AllDigits(s) == \A i \in 1..Len(s) : IsDigit(s[i])

RECURSIVE DigitsValue(_)
DigitsValue(s) == IF s = <<>> THEN 0
                  ELSE 10 * DigitsValue(SubSeq(s, 1, Len(s) - 1))
                       + DigitValue(s[Len(s)])

RECURSIVE DigitsOf(_)
\* str(n) for an integer n >= 0
DigitsOf(n) == IF n < 10 THEN <<Digits[n + 1]>>
               ELSE DigitsOf(n \div 10) \o <<Digits[(n % 10) + 1]>>

\* int(s) raises ValueError unless s is a decimal literal
IntRaises(s) == s = <<>> \/ ~AllDigits(s)
ParseInt(s) == DigitsValue(s)

\* str(float(n)) for an integer n >= 0: "2023.0"
FloatStr(n) == DigitsOf(n) \o <<".", "0">>

(* ------------------------- today_seoul, TODAY ------------------------- *)
IsLeap(y) == (y % 4 = 0 /\ y % 100 # 0) \/ y % 400 = 0
DaysInMonth(y, m) == IF m = 2 THEN (IF IsLeap(y) THEN 29 ELSE 28)
                     ELSE IF m \in {4, 6, 9, 11} THEN 30 ELSE 31
NextDay(y, m, d) == IF d < DaysInMonth(y, m) THEN PyDate(y, m, d + 1)
                    ELSE IF m < 12 THEN PyDate(y, m + 1, 1)
                    ELSE PyDate(y + 1, 1, 1)

\* the date in Seoul (UTC+9) at the UTC instant now = <<y, m, d, hour>>
today_seoul(now) == IF now[4] + 9 < 24 THEN PyDate(now[1], now[2], now[3])
                    ELSE NextDay(now[1], now[2], now[3])
YearOf(date) == date[2]

\* the UTC instants at which the script is started
UtcNows == {<<2024, 12, 31, 14>>, <<2024, 12, 31, 15>>}

(* -------------------- line 116: year -> date column ------------------- *)
\* strptime with format "%Y": four digits, and nothing may remain
YearFormatMatches(s) == Len(s) = 4 /\ AllDigits(s)

\* pd.to_datetime(float column, format="%Y", errors="coerce").dt.date for one
\* cell. The float is formatted for strptime; "lenient" stands for a pandas
\* that formats an integral float without its fraction, the other case for one
\* that formats it with str() ("2023.0"), which "%Y" does not match.
ToDate(d, lenientYear) ==
  IF d = PyNone THEN NaT
  ELSE LET s == IF lenientYear THEN DigitsOf(d[2]) ELSE FloatStr(d[2])
       IN IF YearFormatMatches(s) THEN PyDate(ParseInt(s), 1, 1) ELSE NaT

(* ------------------------ the provider's answers ---------------------- *)
CO2 == "EN.ATM.CO2E.PC"
EMP_AGR == "SL.AGR.EMPL.ZS"
EMP_IND == "SL.IND.EMPL.ZS"
EMP_SRV == "SL.SRV.EMPL.ZS"

\* one raw record of the envelope's second element
RawRec(iso, country, date, value, indicator) ==
  [countryiso3code |-> iso, country |-> country, date |-> date,
   value |-> value, indicator |-> indicator]

BaseRec == RawRec(JStr("KOR"), JObj(JStr("Korea")),
                  JStr(<<"2", "0", "2", "3">>), JNum(45), JObj(JStr(CO2)))

\* the raw records tried: BaseRec and records that differ from it in the
\* date, the country or the indicator
RawDates == {JNull, JStr(<<>>), JStr(<<"0">>), JStr(<<"2", "0", "x">>),
             JStr(<<"2", "0", "2", "4">>), JStr(<<"2", "0", "2", "5">>)}
RawRecords ==
  {BaseRec}
  \cup {[BaseRec EXCEPT !.country = v] : v \in {JNull}}
  \cup {[BaseRec EXCEPT !.date = v] : v \in RawDates}
  \cup {[BaseRec EXCEPT !.indicator = v] :
           v \in {JAbsent, JNull, JObj(JStr(EMP_AGR))}}

SeqsUpTo(S, n) == UNION {[1..k -> S] : k \in 0..n}

\* what requests.get gives: a transport error, or a response with a status
\* and a body
Response(net, status, body) == [net |-> net, status |-> status, body |-> body]
Meta == <<"meta">>
Envelope(recs) == <<"list", <<Meta, <<"list", recs>>>>>>

FailingResponses ==
  {Response("error", 0, <<"none">>),
   Response("ok", 500, <<"none">>),
   Response("ok", 200, <<"notjson">>),
   Response("ok", 200, <<"dict">>),
   Response("ok", 200, <<"list", <<>>>>),
   Response("ok", 200, <<"list", <<Meta>>>>),
   Response("ok", 200, <<"list", <<Meta, JNull>>>>)}
EnvelopeResponses(Recs, n) ==
  {Response("ok", 200, Envelope(recs)) : recs \in SeqsUpTo(Recs, n)}
Responses == FailingResponses \cup EnvelopeResponses(RawRecords, MaxRecs)

(* ------------------- lines 102-112: the record loop ------------------- *)
\* line 103: the parsed year, None when the date is missing or empty
DateRaises(rec) ==
  Get(rec.date) \notin {PyNone, PyStr(<<>>)} /\ IntRaises(Get(rec.date)[2])
DateOf(rec) == IF Get(rec.date) \in {PyNone, PyStr(<<>>)} THEN PyNone
               ELSE PyInt(ParseInt(Get(rec.date)[2]))

\* the comparison of line 104 written with >=
Skipped_inclusive(rec, today) ==
  Get(rec.date) \notin {PyNone, PyStr(<<>>)}
  /\ ParseInt(Get(rec.date)[2]) >= today[2]

\* line 104: a record of a later year than TODAY's is skipped
Skipped(rec, today) ==
  DateOf(rec) # PyNone /\ DateOf(rec)[2] > YearOf(today)

\* rec.get(key, {}).get(member): a JSON null has no .get
MemberRaises(j) == j # JAbsent /\ j[1] # "obj"
Member(j) == IF j = JAbsent THEN PyNone ELSE Get(j[2])

Row(iso, country, date, value, indicator) ==
  [countryiso3code |-> iso, country |-> country, date |-> date,
   value |-> value, indicator |-> indicator]

\* line 111 reading the member "value" of the indicator object, which has
\* none
RowOf_wrong_member(rec) ==
  [countryiso3code |-> Get(rec.countryiso3code),
   country |-> Member(rec.country),
   date |-> IF Get(rec.date) \in {PyNone, PyStr(<<>>)} THEN PyNone
            ELSE PyInt(ParseInt(Get(rec.date)[2])),
   value |-> Get(rec.value), indicator |-> PyNone]

\* lines 106-112
RowOf(rec) == Row(Get(rec.countryiso3code), Member(rec.country), DateOf(rec),
                  Get(rec.value), Member(rec.indicator))

\* int() of a string that is no decimal literal (line 103)
InvalidLiteral == "ValueError: invalid literal for int()"
\* line 99
UnexpectedStructure == "ValueError: Unexpected response structure"

\* the exception one pass of the loop body raises, NoExc if none
RecExc(rec, today) ==
  IF DateRaises(rec) THEN InvalidLiteral
  ELSE IF Skipped(rec, today) THEN NoExc
  ELSE IF MemberRaises(rec.country) \/ MemberRaises(rec.indicator)
       THEN "AttributeError"
  ELSE NoExc

RECURSIVE BuildRows(_, _)
\* the list rows after the loop over records (no pass raised)
BuildRows(recs, today) ==
  IF recs = <<>> THEN <<>>
  ELSE LET rest == BuildRows(Tail(recs), today)
       IN IF Skipped(Head(recs), today) THEN rest
          ELSE <<RowOf(Head(recs))>> \o rest

\* the exception of the first pass that raises, NoExc if none does
LoopExc(recs, today) ==
  IF \E i \in 1..Len(recs) : RecExc(recs[i], today) # NoExc
  THEN LET i == CHOOSE k \in 1..Len(recs) :
                  /\ RecExc(recs[k], today) # NoExc
                  /\ \A j \in 1..(k - 1) : RecExc(recs[j], today) = NoExc
       IN RecExc(recs[i], today)
  ELSE NoExc

(* ------------------- lines 113-117: the data frame -------------------- *)
RECURSIVE drop_duplicates(_)
\* keeps the first occurrence of every row
drop_duplicates(rs) ==
  IF rs = <<>> THEN <<>>
  ELSE LET init == drop_duplicates(SubSeq(rs, 1, Len(rs) - 1))
           last == rs[Len(rs)]
       IN IF \E i \in 1..Len(init) : init[i] = last THEN init
          ELSE Append(init, last)

\* the frame returned for the list rows
DataFrame(rs, lenientYear) ==
  LET dd == drop_duplicates(rs)
  IN [i \in 1..Len(dd) |->
        [dd[i] EXCEPT !.date = ToDate(dd[i].date, lenientYear)]]

(* --------------- lines 94-100: one attempt of the request ------------- *)
\* the exception the body of the try raises for a response, NoExc if none
AttemptExc(r, today) ==
  IF r.net = "error" THEN "ConnectionError"
  ELSE IF r.status # 200 THEN "HTTPError"
  ELSE IF r.body[1] = "notjson" THEN "JSONDecodeError"
  ELSE IF ~(r.body[1] = "list" /\ Len(r.body[2]) >= 2)
       THEN UnexpectedStructure
  ELSE IF r.body[2][2] = JNull THEN "TypeError"
  ELSE LoopExc(r.body[2][2][2], today)

RecordsOf(r) == r.body[2][2][2]

\* the possible values of TODAY
Todays == {today_seoul(now) : now \in UtcNows}

(* ------------------------------- state -------------------------------- *)
VARIABLES
  TODAY,          \* line 52: the date in Seoul when the script started
  lenientYear,    \* which of the two formattings of line 116 pandas applies
  pc,             \* fetch_worldbank_indicator: "idle", "try", "returned",
                  \* "raised"
  indicator_code, \* argument
  retries,        \* argument
  backoff,        \* argument
  attempt,        \* line 92
  caught,         \* line 118: the exception caught in the latest pass
  resp,           \* the response the returned frame was built from
  rows,           \* line 101: the list built from that response
  ret,            \* the value returned
  exc,            \* the exception raised to the caller
  httpCalls,      \* number of requests.get calls of this call
  sleeps,         \* the arguments of the time.sleep calls of this call
  run,            \* number of script runs started
  tab,            \* tab 1 of the script: "off", "loading", "shown"
  idx,            \* load_public_datasets: position in indicators
  results,        \* load_public_datasets: the dict results
  fetched,        \* the indicator names whose fetch this run has called
  fetch_cache,    \* st.cache_data of fetch_worldbank_indicator
  load_cache,     \* st.cache_data of load_public_datasets
  public_data,    \* line 188/191
  origin,         \* where each series of public_data came from
  warned          \* line 190: the warning is on screen

fvars == <<pc, indicator_code, retries, backoff, attempt, caught, resp, rows,
           ret, exc, httpCalls, sleeps>>
dvars == <<run, tab, idx, results, fetched, fetch_cache, load_cache,
           public_data, origin, warned>>
vars == <<TODAY, lenientYear, fvars, dvars>>

Df(rs) == <<"df", rs>>
NoResp == Response("none", 0, <<"none">>)
EmptyDict == [k \in {} |-> NoValue]

(* ------------------- fetch_worldbank_indicator ------------------------ *)
\* line 93: the loop is entered
LoopEntered(a, r) == a <= r
\* the comparison of line 120 written with >=
Exhausted_early(a, r) == a >= r
\* line 120: no attempt is left
Exhausted(a, r) == a > r
\* line 122 with an exponential delay
SleepTime_exponential(b, a) == b * 2 ^ (a - 1)
\* line 122: the argument of time.sleep
SleepTime(b, a) == b * a

\* the call: lines 89-93 up to the first request; with retries < 0 the loop
\* is never entered and the function falls off its end, returning None
FetchCall(code, r, b) ==
  /\ indicator_code' = code
  /\ retries' = r
  /\ backoff' = b
  /\ attempt' = 0
  /\ caught' = NoExc
  /\ resp' = NoResp
  /\ rows' = <<>>
  /\ exc' = NoExc
  /\ httpCalls' = 0
  /\ sleeps' = <<>>
  /\ IF LoopEntered(0, r)
     THEN pc' = "try" /\ ret' = NoValue
     ELSE pc' = "returned" /\ ret' = PyNone

\* the retry with a handler of its own for ValueError that does not sleep
FetchRetries_no_sleep(e) ==
  /\ pc = "try"
  /\ e # NoExc
  /\ attempt + 1 <= retries
  /\ attempt' = attempt + 1
  /\ httpCalls' = httpCalls + 1
  /\ caught' = e
  /\ sleeps' = IF e = UnexpectedStructure THEN sleeps
               ELSE Append(sleeps, backoff * (attempt + 1))
  /\ pc' = "try"
  /\ UNCHANGED <<indicator_code, retries, backoff, resp, rows, ret, exc>>

\* one pass of the loop whose request fails with exception e while an
\* attempt is left: lines 95-100, 118-122 and the loop test
FetchRetries(e) ==
  /\ pc = "try"
  /\ e # NoExc
  /\ ~Exhausted(attempt + 1, retries)
  /\ attempt' = attempt + 1
  /\ httpCalls' = httpCalls + 1
  /\ caught' = e
  /\ sleeps' = Append(sleeps, SleepTime(backoff, attempt + 1))
  /\ IF LoopEntered(attempt + 1, retries)
     THEN pc' = "try" /\ ret' = ret
     ELSE pc' = "returned" /\ ret' = PyNone
  /\ UNCHANGED <<indicator_code, retries, backoff, resp, rows, exc>>

\* one pass of the loop whose request fails with exception e and no attempt
\* is left: lines 95-100, 118-121
FetchRaises(e) ==
  /\ pc = "try"
  /\ e # NoExc
  /\ Exhausted(attempt + 1, retries)
  /\ attempt' = attempt + 1
  /\ httpCalls' = httpCalls + 1
  /\ caught' = e
  /\ exc' = e
  /\ pc' = "raised"
  /\ UNCHANGED <<indicator_code, retries, backoff, resp, rows, ret, sleeps>>

\* the successful pass with attempt counted before the request
FetchReturns_counted(r) ==
  /\ pc = "try"
  /\ httpCalls' = httpCalls + 1
  /\ attempt' = attempt + 1
  /\ resp' = r
  /\ rows' = BuildRows(RecordsOf(r), TODAY)
  /\ ret' = Df(DataFrame(rows', lenientYear))
  /\ caught' = NoExc
  /\ pc' = "returned"
  /\ UNCHANGED <<indicator_code, retries, backoff, exc, sleeps>>

\* one pass of the loop whose request succeeds with response r: lines 95-117
FetchReturns(r) ==
  /\ pc = "try"
  /\ httpCalls' = httpCalls + 1
  /\ resp' = r
  /\ rows' = BuildRows(RecordsOf(r), TODAY)
  /\ ret' = Df(DataFrame(rows', lenientYear))
  /\ caught' = NoExc
  /\ pc' = "returned"
  /\ UNCHANGED <<indicator_code, retries, backoff, attempt, exc, sleeps>>

(* ------------------------- a direct call ------------------------------ *)
\* the indicator_code argument of a direct call
Codes == {CO2}

\* the exception of every response tried, and the responses without one
ExcOf == [t \in Todays |-> [r \in Responses |-> AttemptExc(r, t)]]
Excs == [t \in Todays |-> {ExcOf[t][r] : r \in Responses} \ {NoExc}]
Good == [t \in Todays |-> {r \in Responses : ExcOf[t][r] = NoExc}]

Init ==
  /\ TODAY \in Todays
  /\ lenientYear \in BOOLEAN
  /\ pc = "idle"
  /\ indicator_code = ""
  /\ retries = 0
  /\ backoff = 0
  /\ attempt = 0
  /\ caught = NoExc
  /\ resp = NoResp
  /\ rows = <<>>
  /\ ret = NoValue
  /\ exc = NoExc
  /\ httpCalls = 0
  /\ sleeps = <<>>
  /\ run = 0
  /\ tab = "off"
  /\ idx = 1
  /\ results = EmptyDict
  /\ fetched = <<>>
  /\ fetch_cache = EmptyDict
  /\ load_cache = NoValue
  /\ public_data = EmptyDict
  /\ origin = EmptyDict
  /\ warned = FALSE

Call ==
  /\ pc = "idle"
  /\ \E code \in Codes, r \in (-1)..MaxRetries, b \in 1..MaxBackoff :
       FetchCall(code, r, b)
  /\ UNCHANGED <<TODAY, lenientYear, dvars>>

Retry ==
  /\ \E e \in Excs[TODAY] : FetchRetries(e)
  /\ UNCHANGED <<TODAY, lenientYear, dvars>>

Raise ==
  /\ \E e \in Excs[TODAY] : FetchRaises(e)
  /\ UNCHANGED <<TODAY, lenientYear, dvars>>

Return ==
  /\ \E r \in Good[TODAY] : FetchReturns(r)
  /\ UNCHANGED <<TODAY, lenientYear, dvars>>

Next == Call \/ Retry \/ Raise \/ Return

Spec == Init /\ [][Next]_vars

(* --------------------- the dashboard, tab 1 --------------------------- *)
\* line 88: the defaults of retries and backoff
DefaultRetries == 2
DefaultBackoff == 1

\* lines 129-134, in the order of the dict
indicators == <<[name |-> "CO2", code |-> CO2],
                [name |-> "EMP_AGR", code |-> EMP_AGR],
                [name |-> "EMP_IND", code |-> EMP_IND],
                [name |-> "EMP_SRV", code |-> EMP_SRV]>>
Names == {indicators[i].name : i \in 1..Len(indicators)}

\* lines 145-154: one sample series, the years 2000 to 2023; the values
\* are random
FallbackFrame ==
  Df([i \in 1..24 |-> [country |-> PyStr("World"),
                       date |-> PyDate(1999 + i, 1, 1),
                       value |-> <<"random">>]])
fallback_public_data == [n \in Names |-> FallbackFrame]

DateLeq(a, b) == \/ a[2] < b[2]
                 \/ a[2] = b[2] /\ a[3] < b[3]
                 \/ a[2] = b[2] /\ a[3] = b[3] /\ a[4] <= b[4]

\* the responses tried in a dashboard run
DashRecords == {BaseRec, [BaseRec EXCEPT !.date = JStr(<<"2", "0", "2", "5">>)]}
DashResponses == FailingResponses \cup EnvelopeResponses(DashRecords, MaxDashRecs)
DashExcs ==
  [t \in Todays |-> {AttemptExc(r, t) : r \in DashResponses} \ {NoExc}]
DashGood ==
  [t \in Todays |-> {r \in DashResponses : AttemptExc(r, t) = NoExc}]

\* lines 188-191 once load_public_datasets has returned res
Loaded(res) ==
  /\ public_data' = res
  /\ origin' = [n \in DOMAIN res |-> "provider"]
  /\ tab' = "shown"

\* line 138 for the value df of the fetch of indicators[idx], and line 139
\* after the last one
Stored(df) ==
  /\ results' = (indicators[idx].name :> df) @@ results
  /\ idx' = idx + 1
  /\ IF idx = Len(indicators)
     THEN load_cache' = results' /\ Loaded(results')
     ELSE UNCHANGED <<load_cache, public_data, origin, tab>>

\* the script is run: TODAY is computed, and tab 1 calls
\* load_public_datasets, which answers from its cache or starts its loop
RunScript ==
  /\ tab \in {"off", "shown"}
  /\ run < MaxRuns
  /\ run' = run + 1
  /\ TODAY' \in {t \in Todays : run = 0 \/ DateLeq(TODAY, t)}
  /\ warned' = FALSE
  /\ fetched' = <<>>
  /\ IF load_cache # NoValue
     THEN /\ Loaded(load_cache)
          /\ UNCHANGED <<idx, results>>
     ELSE /\ tab' = "loading"
          /\ idx' = 1
          /\ results' = EmptyDict
          /\ public_data' = EmptyDict
          /\ origin' = EmptyDict
  /\ pc' = "idle"
  /\ UNCHANGED <<lenientYear, indicator_code, retries, backoff, attempt,
                 caught, resp, rows, ret, exc, httpCalls, sleeps,
                 fetch_cache, load_cache>>

\* line 137: fetch_worldbank_indicator(code) is called and answers from its
\* cache
LoadCached ==
  /\ tab = "loading"
  /\ pc \in {"idle", "returned"}
  /\ indicators[idx].code \in DOMAIN fetch_cache
  /\ fetched' = Append(fetched, indicators[idx].name)
  /\ Stored(fetch_cache[indicators[idx].code])
  /\ pc' = "idle"
  /\ UNCHANGED <<TODAY, lenientYear, indicator_code, retries, backoff,
                 attempt, caught, resp, rows, ret, exc, httpCalls, sleeps,
                 run, fetch_cache, warned>>

\* line 137: fetch_worldbank_indicator(code) is called and runs
LoadCall ==
  /\ tab = "loading"
  /\ pc \in {"idle", "returned"}
  /\ indicators[idx].code \notin DOMAIN fetch_cache
  /\ fetched' = Append(fetched, indicators[idx].name)
  /\ FetchCall(indicators[idx].code, DefaultRetries, DefaultBackoff)
  /\ UNCHANGED <<TODAY, lenientYear, run, tab, idx, results, fetch_cache,
                 load_cache, public_data, origin, warned>>

\* a request of the running fetch fails and is retried
LoadRetry ==
  /\ tab = "loading"
  /\ \E e \in DashExcs[TODAY] : FetchRetries(e)
  /\ UNCHANGED <<TODAY, lenientYear, dvars>>

\* the exception caught inside the loop of load_public_datasets: only the
\* series not yet loaded are taken from the sample data
LoadRaise_partial ==
  /\ tab = "loading"
  /\ \E e \in DashExcs[TODAY] : FetchRaises(e)
  /\ warned' = TRUE
  /\ public_data' = results @@ fallback_public_data
  /\ origin' = [n \in Names |->
                  IF n \in DOMAIN results THEN "provider" ELSE "fallback"]
  /\ tab' = "shown"
  /\ UNCHANGED <<TODAY, lenientYear, run, idx, results, fetched, fetch_cache,
                 load_cache>>

\* the last request of the running fetch fails: the exception leaves
\* load_public_datasets and is caught at line 189
LoadRaise ==
  /\ tab = "loading"
  /\ \E e \in DashExcs[TODAY] : FetchRaises(e)
  /\ warned' = TRUE
  /\ public_data' = fallback_public_data
  /\ origin' = [n \in Names |-> "fallback"]
  /\ tab' = "shown"
  /\ UNCHANGED <<TODAY, lenientYear, run, idx, results, fetched, fetch_cache,
                 load_cache>>

\* a request of the running fetch succeeds: the frame is cached and stored
LoadReturn ==
  /\ tab = "loading"
  /\ \E r \in DashGood[TODAY] : FetchReturns(r)
  /\ fetch_cache' = (indicator_code :> ret') @@ fetch_cache
  /\ Stored(ret')
  /\ UNCHANGED <<TODAY, lenientYear, run, fetched, warned>>

DashNext == RunScript \/ LoadCached \/ LoadCall \/ LoadRetry \/ LoadRaise
            \/ LoadReturn

DashSpec == Init /\ [][DashNext]_vars

(* ============================ properties ============================== *)
\* the call has returned a frame
Returned == pc = "returned" /\ ret[1] = "df"
Frame == ret[2]
\* every request of the call so far has failed
AllFailed == httpCalls = attempt

RECURSIVE Sum(_)
Sum(q) == IF q = <<>> THEN 0 ELSE Head(q) + Sum(Tail(q))

\* the raw records of the response that line 104 does not skip
KeptRecs ==
  LET recs == RecordsOf(resp)
  IN {i \in 1..Len(recs) :
        DateOf(recs[i]) = PyNone \/ DateOf(recs[i])[2] <= YearOf(TODAY)}

(* C1: with retries = N >= 0 and every request failing, the call makes      *)
(* exactly N + 1 requests and then raises; it makes no more, raises after   *)
(* no fewer, and returns nothing.                                           *)
C1_ExactlyNPlusOneAttempts ==
  (pc # "idle" /\ retries >= 0 /\ AllFailed) =>
     /\ pc \in {"try", "raised"}
     /\ ret = NoValue
     /\ httpCalls <= retries + 1
     /\ (pc = "try") = (httpCalls <= retries)
     /\ (pc = "raised") = (httpCalls = retries + 1)
     /\ (pc = "raised") => exc # NoExc

C1_Witness ==
  pc = "raised" /\ retries = 2 /\ httpCalls = 3 /\ attempt = 3

(* C2: when the first request fails and the second succeeds, the call has   *)
(* made exactly 2 requests and one sleep, and returns the frame built from  *)
(* the second response; once it has returned there is no further request   *)
(* and no further sleep.                                                    *)
C2_FailOnceThenSucceed ==
  /\ [](Returned =>
         /\ httpCalls = attempt + 1
         /\ Len(sleeps) = attempt
         /\ attempt = 1 => (httpCalls = 2 /\ retries >= 1)
         /\ AttemptExc(resp, TODAY) = NoExc
         /\ ret = Df(DataFrame(BuildRows(RecordsOf(resp), TODAY),
                               lenientYear)))
  /\ [][pc = "returned" => (httpCalls' = httpCalls /\ sleeps' = sleeps
                            /\ pc' = "returned" /\ ret' = ret)]_vars

C2_Witness ==
  Returned /\ attempt = 1 /\ httpCalls = 2 /\ caught = NoExc /\ Len(Frame) = 2

(* C3: the frame returned holds no record of a later year than TODAY's: a   *)
(* raw record whose parsed year exceeds TODAY's year yields no row, a       *)
(* record of TODAY's year is kept, and every year left in the list rows or  *)
(* in the frame is at most TODAY's year.                                    *)
C3_FutureFiltered ==
  Returned =>
    LET recs == RecordsOf(resp)
        y == YearOf(TODAY)
    IN /\ \A i \in 1..Len(rows) :
            rows[i].date # PyNone => rows[i].date[2] <= y
       /\ \A i \in 1..Len(Frame) :
            Frame[i].date # NaT => Frame[i].date[2] <= y
       /\ Len(rows) = Cardinality(KeptRecs)
       /\ \A i \in 1..Len(recs) :
            DateOf(recs[i]) = PyInt(y) =>
              /\ \E j \in 1..Len(rows) : rows[j] = RowOf(recs[i])
              /\ \E j \in 1..Len(Frame) :
                    Frame[j] = [RowOf(recs[i]) EXCEPT
                                  !.date = ToDate(PyInt(y), lenientYear)]

C3_Witness ==
  /\ Returned
  /\ YearOf(TODAY) = 2024
  /\ lenientYear
  /\ RecordsOf(resp) = <<[BaseRec EXCEPT !.date = JStr(<<"2", "0", "2", "5">>)],
                          [BaseRec EXCEPT !.date = JStr(<<"2", "0", "2", "4">>)]>>
  /\ Len(Frame) = 1
  /\ Frame[1].date = PyDate(2024, 1, 1)

(* C4: the frame returned holds no two records equal in all five fields,    *)
(* and its records are in the order of their first occurrence in the        *)
(* response.                                                                *)
C4_NoDuplicatesFirstOccurrence ==
  Returned =>
    LET conv(row) == [row EXCEPT !.date = ToDate(row.date, lenientYear)]
        first(row) == CHOOSE k \in 1..Len(rows) :
                        /\ conv(rows[k]) = row
                        /\ \A j \in 1..(k - 1) : conv(rows[j]) # row
    IN /\ \A i, j \in 1..Len(Frame) : i # j => Frame[i] # Frame[j]
       /\ \A i, j \in 1..Len(Frame) :
            i < j => first(Frame[i]) < first(Frame[j])

(* C5: a body that is not a list of at least two elements is handled as a   *)
(* transport failure is: it raises the exception of line 99, the pass       *)
(* counts one attempt, a sleep of backoff * attempt and another pass follow *)
(* while an attempt is left, the call raises when none is left, and no      *)
(* frame is ever returned from such a body.                                 *)
Malformed(r) ==
  r.net = "ok" /\ r.status = 200 /\ r.body[1] # "notjson"
  /\ ~(r.body[1] = "list" /\ Len(r.body[2]) >= 2)

MalformedRaises ==
  \A t \in Todays : \A r \in Responses :
     Malformed(r) <=> AttemptExc(r, t) = UnexpectedStructure

C5_MalformedEnvelopeRetried ==
  /\ [](MalformedRaises /\ (Returned => ~Malformed(resp)))
  /\ [][(httpCalls' = httpCalls + 1
          /\ caught' \in {UnexpectedStructure, "ConnectionError"}) =>
           /\ attempt' = attempt + 1
           /\ ret' = NoValue
           /\ IF attempt' <= retries
              THEN /\ pc' = "try"
                   /\ sleeps' = Append(sleeps, backoff * attempt')
                   /\ exc' = NoExc
              ELSE /\ pc' = "raised"
                   /\ sleeps' = sleeps
                   /\ exc' = caught']_vars

C5_Witness ==
  /\ pc = "try" /\ caught = UnexpectedStructure /\ attempt = 2
  /\ httpCalls = 2 /\ sleeps = <<backoff, backoff * 2>>

(* C6: the Nth sleep of a call lasts backoff * N; a sleep is always         *)
(* followed by another request, so none follows the last failed request;    *)
(* when every request has failed and the call raises, the sleeps add up to  *)
(* backoff * (1 + ... + retries), which is 3 for retries = 2, backoff = 1.  *)
C6_LinearBackoff ==
  pc # "idle" =>
    /\ \A n \in 1..Len(sleeps) : sleeps[n] = backoff * n
    /\ pc = "try" => Len(sleeps) = httpCalls
    /\ Returned => Len(sleeps) = httpCalls - 1
    /\ pc = "raised" =>
         /\ Len(sleeps) = httpCalls - 1
         /\ Len(sleeps) = retries
         /\ 2 * Sum(sleeps) = backoff * retries * (retries + 1)
         /\ (retries = 2 /\ backoff = 1) => Sum(sleeps) = 3

C6_Witness ==
  pc = "raised" /\ retries = 3 /\ backoff = 2 /\ sleeps = <<2, 4, 6>>

(* C7: a record whose date cannot be parsed as an integer never makes the   *)
(* fetch fail: no pass of the loop catches, and no call raises, the         *)
(* ValueError of int().                                                     *)
C7_UnparseableDateTolerated ==
  caught # InvalidLiteral /\ exc # InvalidLiteral

C9_ReturnsFrameOrRaises ==
  /\ pc = "returned" => (ret[1] = "df" /\ httpCalls >= 1)
  /\ pc = "raised" => (ret = NoValue /\ exc # NoExc /\ httpCalls >= 1
                        /\ AllFailed)

(* C10: the four indicators are fetched in the order CO2, EMP_AGR, EMP_IND, *)
(* EMP_SRV; when a fetch raises, no later indicator is fetched and all four *)
(* series are the sample data; otherwise all four series are frames that    *)
(* fetches returned; public_data has all four keys and never mixes the two. *)
C10_AllOrNothing ==
  /\ Len(fetched) <= Len(indicators)
  /\ \A i \in 1..Len(fetched) : fetched[i] = indicators[i].name
  /\ tab = "shown" =>
       /\ DOMAIN public_data = Names
       /\ DOMAIN origin = Names
       /\ \/ \A n \in Names : origin[n] = "provider"
          \/ \A n \in Names : origin[n] = "fallback"
       /\ (pc = "raised") = (origin["CO2"] = "fallback")
       /\ pc = "raised" =>
            /\ fetched # <<>>
            /\ indicator_code = indicators[Len(fetched)].code
            /\ public_data = fallback_public_data
            /\ warned
       /\ pc # "raised" =>
            /\ ~warned
            /\ \A i \in 1..Len(indicators) :
                 /\ indicators[i].code \in DOMAIN fetch_cache
                 /\ public_data[indicators[i].name]
                      = fetch_cache[indicators[i].code]
                 /\ public_data[indicators[i].name][1] = "df"

C10_Witness ==
  /\ tab = "shown" /\ pc = "raised" /\ fetched = <<"CO2", "EMP_AGR">>
  /\ "CO2" \in DOMAIN results
  /\ \A n \in Names : origin[n] = "fallback"

====
